---- MODULE Spec2Model ----
(***************************************************************************)
(* QulacsDevice (pennylane_qulacs/qulacs_device.py): a device adapter that *)
(* queues gates in a circuit, flushes them into a state vector, and reads  *)
(* expectation values and the state back.                                  *)
(*                                                                         *)
(* Amplitudes are exact Gaussian integers <<re, im>>.  Angles are integers *)
(* in units of pi/2; the rotation angle of a gate is always an even number *)
(* of units, so that every gate matrix has Gaussian-integer entries.       *)
(* Basis index i of the engine's vector is stored at position i + 1, and   *)
(* qubit w is bit w of i (the engine's convention).                        *)
(***************************************************************************)
EXTENDS Integers, Sequences, FiniteSets, TLC

\* Largest number of calls made on a device since construction or the last reset.
MaxOps == 3

\* Wire counts a device is constructed with.
WireCounts == {1, 2}

VARIABLES
    num_wires,  \* Device.num_wires, fixed at construction
    _state,     \* self._state: the engine's amplitude vector
    _circuit,   \* self._circuit: the queued gates, oldest first
    raised,     \* the exception the last call raised, "none" if it returned
    returned,   \* the value the last call returned
    trace,      \* the calls made since construction or the last reset
    pre         \* _state and _circuit as they were when the last call began

vars == <<num_wires, _state, _circuit, raised, returned, trace, pre>>

----------------------------------------------------------------------------
\* Complex arithmetic on <<re, im>>.

Zero == <<0, 0>>
One == <<1, 0>>
MinusOne == <<-1, 0>>
ImagI == <<0, 1>>
MinusI == <<0, -1>>

CAdd(a, b) == <<a[1] + b[1], a[2] + b[2]>>
CMul(a, b) == <<a[1] * b[1] - a[2] * b[2], a[1] * b[2] + a[2] * b[1]>>
\* ndarray.conj()
CConj(a) == <<a[1], -a[2]>>

\* cos(q*pi/4) and sin(q*pi/4) for an even number q of pi/2 units: the half angle
\* of a rotation by q*pi/2.
CosHalf(q) == CASE (q \div 2) % 4 = 0 -> 1
                [] (q \div 2) % 4 = 1 -> 0
                [] (q \div 2) % 4 = 2 -> -1
                [] OTHER -> 0
SinHalf(q) == CASE (q \div 2) % 4 = 0 -> 0
                [] (q \div 2) % 4 = 1 -> 1
                [] (q \div 2) % 4 = 2 -> 0
                [] OTHER -> -1
\* exp(i*q*pi/2)
ExpI(q) == CASE q % 4 = 0 -> One
             [] q % 4 = 1 -> ImagI
             [] q % 4 = 2 -> MinusOne
             [] OTHER -> MinusI
Scale(k, a) == <<k * a[1], k * a[2]>>

----------------------------------------------------------------------------
\* The engine: states, gates, circuits.

Bit(i, w) == (i \div (2 ^ w)) % 2
WithBit(i, w, b) == i - Bit(i, w) * (2 ^ w) + b * (2 ^ w)

\* QuantumState(n): the vector of length 2^n with amplitude 1 at index 0.
QuantumState(n) == [k \in 1..(2 ^ n) |-> IF k = 1 THEN One ELSE Zero]

\* QuantumState.set_zero_state()
set_zero_state(st) == [k \in 1..Len(st) |-> IF k = 1 THEN One ELSE Zero]

\* QuantumCircuit(n): no gates.
QuantumCircuit(n) == <<>>

\* Z_matrix with its diagonal swapped.
Z_matrix_negated == <<<<MinusOne, Zero>>, <<Zero, One>>>>

X_matrix == <<<<Zero, One>>, <<One, Zero>>>>
Y_matrix == <<<<Zero, MinusI>>, <<ImagI, Zero>>>>
Z_matrix == <<<<One, Zero>>, <<Zero, MinusOne>>>>

\* The engine's fixed-axis rotations are exp(+i*theta/2*P).
RX_matrix(q) == <<<<Scale(CosHalf(q), One), Scale(SinHalf(q), ImagI)>>,
                  <<Scale(SinHalf(q), ImagI), Scale(CosHalf(q), One)>>>>
RY_matrix(q) == <<<<Scale(CosHalf(q), One), Scale(SinHalf(q), One)>>,
                  <<Scale(-SinHalf(q), One), Scale(CosHalf(q), One)>>>>
RZ_matrix(q) == <<<<CAdd(Scale(CosHalf(q), One), Scale(SinHalf(q), ImagI)), Zero>>,
                  <<Zero, CAdd(Scale(CosHalf(q), One), Scale(-SinHalf(q), ImagI))>>>>
\* U3(theta, phi, lambda)
U3_matrix(theta, phi, lambda) ==
    <<<<Scale(CosHalf(theta), One), Scale(-SinHalf(theta), ExpI(lambda))>>,
      <<Scale(SinHalf(theta), ExpI(phi)), Scale(CosHalf(theta), ExpI(phi + lambda))>>>>

\* A one-qubit matrix U acting on qubit w of st.
ApplyOneQubit(U, w, st) ==
    [k \in 1..Len(st) |->
        LET i == k - 1
            b == Bit(i, w)
        IN CAdd(CMul(U[b + 1][1], st[WithBit(i, w, 0) + 1]),
                CMul(U[b + 1][2], st[WithBit(i, w, 1) + 1]))]

\* CNOT(control, target) acting on st.
ApplyCNOT(control, target, st) ==
    [k \in 1..Len(st) |->
        LET i == k - 1
        IN IF Bit(i, control) = 1
           THEN st[WithBit(i, target, 1 - Bit(i, target)) + 1]
           ELSE st[k]]

\* The gate objects the adapter constructs.
Gate(ctor, qubits, args) == [ctor |-> ctor, qubits |-> qubits, args |-> args]

GateMatrix(g) ==
    CASE g.ctor = "X" -> X_matrix
      [] g.ctor = "Y" -> Y_matrix
      [] g.ctor = "Z" -> Z_matrix
      [] g.ctor = "RX" -> RX_matrix(g.args[1])
      [] g.ctor = "RY" -> RY_matrix(g.args[1])
      [] g.ctor = "RZ" -> RZ_matrix(g.args[1])
      [] g.ctor = "U3" -> U3_matrix(g.args[1], g.args[2], g.args[3])

\* gate.update_quantum_state(state)
GateUpdate(g, st) ==
    IF g.ctor = "CNOT"
    THEN ApplyCNOT(g.qubits[1], g.qubits[2], st)
    ELSE ApplyOneQubit(GateMatrix(g), g.qubits[1], st)

\* QuantumCircuit.update_quantum_state(state): every gate, oldest first.
RECURSIVE update_quantum_state(_, _)
update_quantum_state(gates, st) ==
    IF gates = <<>>
    THEN st
    ELSE update_quantum_state(Tail(gates), GateUpdate(Head(gates), st))

\* DenseMatrix(wires, A).update_quantum_state(state), for a 2x2 A on one wire.
DenseMatrix(wires, A, st) == ApplyOneQubit(A, wires[1], st)

\* load that never copies the vector.
load_ignored(st, v) == {[state |-> st, raised |-> "none"]}

\* QuantumState.load(v): a vector of another length than the state's is refused
\* and the state kept; the engine either raises or only prints a message,
\* depending on its version.
load(st, v) ==
    IF Len(v) = Len(st)
    THEN {[state |-> v, raised |-> "none"]}
    ELSE {[state |-> st, raised |-> r] : r \in {"EngineError", "none"}}

\* inner_product(bra, ket) = sum of conj(bra[i]) * ket[i]
RECURSIVE InnerSum(_, _, _)
InnerSum(bra, ket, k) ==
    IF k = 0
    THEN Zero
    ELSE CAdd(InnerSum(bra, ket, k - 1), CMul(CConj(bra[k]), ket[k]))
inner_product(bra, ket) == InnerSum(bra, ket, Len(bra))

----------------------------------------------------------------------------
\* The adapter's helpers.

\* A.conj().T
ConjT(A) == [c \in 1..Len(A[1]) |-> [r \in 1..Len(A) |-> CConj(A[r][c])]]

\* np.allclose(A, B) on matrices of one shape.  The entries are Gaussian integers
\* of small magnitude, for which |a - b| <= 1e-8 + 1e-5 * |b| holds only if a = b.
allclose(A, B) ==
    \A r \in 1..Len(A) : \A c \in 1..Len(A[1]) : A[r][c] = B[r][c]

\* hermitian comparing with the transpose, the conjugation forgotten.
hermitian_transpose_only(A) ==
    IF Len(A) # Len(A[1])
    THEN [raised |-> "InvalidObservableError", matrix |-> <<>>]
    ELSE IF ~allclose(A, [c \in 1..Len(A[1]) |-> [r \in 1..Len(A) |-> A[r][c]]])
         THEN [raised |-> "InvalidObservableError", matrix |-> <<>>]
         ELSE [raised |-> "none", matrix |-> A]

\* hermitian(*args): the matrix, or the error raised.
hermitian(A) ==
    IF Len(A) # Len(A[1])
    THEN [raised |-> "InvalidObservableError", matrix |-> <<>>]
    ELSE IF ~allclose(A, ConjT(A))
         THEN [raised |-> "InvalidObservableError", matrix |-> <<>>]
         ELSE [raised |-> "none", matrix |-> A]

\* QulacsDevice._get_operator_matrix
_get_operator_matrix(operation, par) ==
    CASE operation = "PauliX" -> [raised |-> "none", matrix |-> X_matrix]
      [] operation = "PauliY" -> [raised |-> "none", matrix |-> Y_matrix]
      [] operation = "PauliZ" -> [raised |-> "none", matrix |-> Z_matrix]
      [] operation = "Hermitian" -> hermitian(par[1])

\* The gate apply() constructs for a name of its translation table.
TableNames == {"CNOT", "Rot", "RX", "RY", "RZ", "PauliX", "PauliY", "PauliZ"}

Translate(operation, wires, par) ==
    CASE operation = "CNOT" -> Gate("CNOT", wires, <<>>)
      [] operation = "Rot" -> Gate("U3", <<wires[1]>>, par)
      [] operation = "RX" -> Gate("RX", <<wires[1]>>, <<par[1]>>)
      [] operation = "RY" -> Gate("RY", <<wires[1]>>, <<par[1]>>)
      [] operation = "RZ" -> Gate("RZ", <<wires[1]>>, <<par[1]>>)
      [] operation = "PauliX" -> Gate("X", <<wires[1]>>, <<>>)
      [] operation = "PauliY" -> Gate("Y", <<wires[1]>>, <<>>)
      [] operation = "PauliZ" -> Gate("Z", <<wires[1]>>, <<>>)

\* The bit reversal of index j on n bits.
RECURSIVE BitReverse(_, _)
BitReverse(j, n) ==
    IF n = 0 THEN 0 ELSE (j % 2) * (2 ^ (n - 1)) + BitReverse(j \div 2, n - 1)

\* state flushing the queued gates before the export.
state_flushing ==
    LET flushed == update_quantum_state(_circuit, _state)
    IN [k \in 1..Len(flushed) |-> flushed[BitReverse(k - 1, num_wires) + 1]]

\* QulacsDevice.state: get_vector().reshape([2] * n).T.flatten()
state == [k \in 1..Len(_state) |-> _state[BitReverse(k - 1, num_wires) + 1]]

----------------------------------------------------------------------------
\* What a call returned.
NoReturn == [kind |-> "none", real |-> 0, vector |-> <<>>]
ReturnReal(x) == [kind |-> "real", real |-> x, vector |-> <<>>]
ReturnVector(v) == [kind |-> "vector", real |-> 0, vector |-> v]

Call(call, name, wires, par, exc) ==
    [call |-> call, name |-> name, wires |-> wires, par |-> par, raised |-> exc]

Snapshot == [state |-> _state, circuit |-> _circuit]

\* The bookkeeping of a call: the budget of calls and the state the call starts
\* from, then the record of the call with its outcome.
Begin ==
    /\ Len(trace) < MaxOps
    /\ pre' = Snapshot
    /\ UNCHANGED num_wires

End(call, name, wires, par) ==
    trace' = Append(trace, Call(call, name, wires, par, raised'))

----------------------------------------------------------------------------
\* The inputs.

Wires(n) == 0..(n - 1)

\* An angle of pi for the rotations; (theta, phi, lambda) = (pi, pi/2, 0) for Rot.
GateCalls(n) ==
    {[operation |-> op, wires |-> <<w>>, par |-> <<>>] :
        op \in {"PauliX", "PauliY", "PauliZ"}, w \in Wires(n)}
    \cup {[operation |-> op, wires |-> <<w>>, par |-> <<2>>] :
        op \in {"RX", "RY", "RZ"}, w \in Wires(n)}
    \cup {[operation |-> "Rot", wires |-> <<w>>, par |-> <<2, 1, 0>>] : w \in Wires(n)}
    \cup {[operation |-> "CNOT", wires |-> <<ct[1], ct[2]>>, par |-> <<>>] :
        ct \in {p \in Wires(n) \X Wires(n) : p[1] # p[2]}}
    \cup {[operation |-> "Hadamard", wires |-> <<0>>, par |-> <<>>]}

BasisVector(len, i) == [k \in 1..len |-> IF k = i + 1 THEN One ELSE Zero]

\* State vectors to load: the basis state 1 on every wire, on the first wire only,
\* and with a vector twice too long.
LoadCalls(n) ==
    LET all == [k \in 1..n |-> k - 1]
    IN {[operation |-> "QubitStateVector", wires |-> all, par |-> <<BasisVector(2 ^ n, 1)>>],
        [operation |-> "QubitStateVector", wires |-> <<0>>, par |-> <<BasisVector(2, 1)>>],
        [operation |-> "QubitStateVector", wires |-> all,
         par |-> <<BasisVector(2 ^ (n + 1), 1)>>]}

FixedObservables(n) ==
    {[observable |-> ob, wires |-> <<w>>, par |-> <<>>] :
        ob \in {"PauliX", "PauliY", "PauliZ"}, w \in Wires(n)}

\* 2x2 Hermitian; square, not Hermitian; symmetric, not Hermitian; 1x2.
HermitianMatrices ==
    {<<<<One, MinusI>>, <<ImagI, MinusOne>>>>,
     <<<<Zero, One>>, <<Zero, Zero>>>>,
     <<<<Zero, ImagI>>, <<ImagI, Zero>>>>,
     <<<<One, Zero>>>>}

HermitianObservables(n) ==
    {[observable |-> "Hermitian", wires |-> <<n - 1>>, par |-> <<M>>] :
        M \in HermitianMatrices}

----------------------------------------------------------------------------
\* The operations.

\* QulacsDevice.__init__
Init ==
    /\ num_wires \in WireCounts
    /\ _state = QuantumState(num_wires)
    /\ _circuit = QuantumCircuit(num_wires)
    /\ raised = "none"
    /\ returned = NoReturn
    /\ trace = <<>>
    /\ pre = Snapshot

\* The length of the vector never checked.
LengthUnchecked(wires, par) == FALSE

\* len(par[0]) != 2**len(wires)
LengthMismatch(wires, par) == Len(par[1]) # 2 ^ Len(wires)

\* QuantumCircuit.add_gate
add_gate(circuit, gate) == Append(circuit, gate)

\* apply running the gate on the state as it queues it.
apply_eager(operation, wires, par) ==
    /\ Begin
    /\ returned' = NoReturn
    /\ IF operation = "QubitStateVector"
       THEN IF LengthMismatch(wires, par)
            THEN /\ raised' = "InvalidArgument"
                 /\ UNCHANGED <<_state, _circuit>>
            ELSE /\ \E out \in load(_state, par[1]) :
                        /\ _state' = out.state
                        /\ raised' = out.raised
                 /\ UNCHANGED _circuit
       ELSE IF operation \in TableNames
            THEN /\ _circuit' = add_gate(_circuit, Translate(operation, wires, par))
                 /\ raised' = "none"
                 /\ _state' = GateUpdate(Translate(operation, wires, par), _state)
            ELSE /\ raised' = "UnsupportedOperationError"
                 /\ UNCHANGED <<_state, _circuit>>
    /\ End("apply", operation, wires, par)

\* QulacsDevice.apply
apply(operation, wires, par) ==
    /\ Begin
    /\ returned' = NoReturn
    /\ IF operation = "QubitStateVector"
       THEN IF LengthMismatch(wires, par)
            THEN /\ raised' = "InvalidArgument"
                 /\ UNCHANGED <<_state, _circuit>>
            ELSE /\ \E out \in load(_state, par[1]) :
                        /\ _state' = out.state
                        /\ raised' = out.raised
                 /\ UNCHANGED _circuit
       ELSE IF operation \in TableNames
            THEN /\ _circuit' = add_gate(_circuit, Translate(operation, wires, par))
                 /\ raised' = "none"
                 /\ UNCHANGED _state
            ELSE /\ raised' = "UnsupportedOperationError"
                 /\ UNCHANGED <<_state, _circuit>>
    /\ End("apply", operation, wires, par)

\* pre_measure emptying the queue once it has run.
pre_measure_clears ==
    /\ Begin
    /\ _state' = update_quantum_state(_circuit, _state)
    /\ raised' = "none"
    /\ returned' = NoReturn
    /\ _circuit' = QuantumCircuit(num_wires)
    /\ End("pre_measure", "", <<>>, <<>>)

\* QulacsDevice.pre_measure (commit)
pre_measure ==
    /\ Begin
    /\ _state' = update_quantum_state(_circuit, _state)
    /\ raised' = "none"
    /\ returned' = NoReturn
    /\ UNCHANGED _circuit
    /\ End("pre_measure", "", <<>>, <<>>)

\* expval running the observable on the copy and keeping the live state.
expval_on_copy(observable, wires, par) ==
    LET bra == _state
        A == _get_operator_matrix(observable, par)
    IN /\ Begin
       /\ UNCHANGED <<_circuit, _state>>
       /\ IF A.raised # "none"
          THEN /\ raised' = A.raised
               /\ returned' = NoReturn
          ELSE /\ raised' = "none"
               /\ returned' = ReturnReal(
                      inner_product(bra, DenseMatrix(wires, A.matrix, bra))[1])
       /\ End("expval", observable, wires, par)

\* QulacsDevice.expval
expval(observable, wires, par) ==
    LET bra == _state
        A == _get_operator_matrix(observable, par)
    IN /\ Begin
       /\ UNCHANGED _circuit
       /\ IF A.raised # "none"
          THEN /\ raised' = A.raised
               /\ returned' = NoReturn
               /\ UNCHANGED _state
          ELSE /\ _state' = DenseMatrix(wires, A.matrix, _state)
               /\ raised' = "none"
               /\ returned' = ReturnReal(inner_product(bra, _state')[1])
       /\ End("expval", observable, wires, par)

\* QulacsDevice.state
read_state ==
    /\ Begin
    /\ returned' = ReturnVector(state)
    /\ raised' = "none"
    /\ UNCHANGED <<_state, _circuit>>
    /\ End("state", "", <<>>, <<>>)

\* reset keeping the queued gates.
reset_keeps_circuit ==
    /\ _state' = set_zero_state(QuantumState(num_wires))
    /\ UNCHANGED _circuit
    /\ trace' = <<Call("reset", "", <<>>, <<>>, "none")>>
    /\ pre' = Snapshot
    /\ raised' = "none"
    /\ returned' = NoReturn
    /\ UNCHANGED num_wires

\* QulacsDevice.reset
reset ==
    /\ _state' = set_zero_state(QuantumState(num_wires))
    /\ _circuit' = QuantumCircuit(num_wires)
    /\ trace' = <<Call("reset", "", <<>>, <<>>, "none")>>
    /\ pre' = Snapshot
    /\ raised' = "none"
    /\ returned' = NoReturn
    /\ UNCHANGED num_wires

Next ==
    \/ \E c \in GateCalls(num_wires) : apply(c.operation, c.wires, c.par)
    \/ \E c \in LoadCalls(num_wires) : apply(c.operation, c.wires, c.par)
    \/ pre_measure
    \/ \E c \in FixedObservables(num_wires) : expval(c.observable, c.wires, c.par)
    \/ \E c \in HermitianObservables(num_wires) : expval(c.observable, c.wires, c.par)
    \/ read_state
    \/ reset

Spec == Init /\ [][Next]_vars

----------------------------------------------------------------------------
\* The vocabulary of the properties.

Ground == [k \in 1..(2 ^ num_wires) |-> IF k = 1 THEN <<1, 0>> ELSE <<0, 0>>]

Last == trace[Len(trace)]
LastIs(call) == trace # <<>> /\ Last.call = call

IsGateApply(c) ==
    /\ c.call = "apply"
    /\ c.name \in {"CNOT", "Rot", "RX", "RY", "RZ", "PauliX", "PauliY", "PauliZ"}

IsLoad(c) == c.call = "apply" /\ c.name = "QubitStateVector"

\* A load the adapter validates and the engine accepts.
IsValidLoad(c) ==
    /\ IsLoad(c)
    /\ Len(c.par[1]) = 2 ^ Len(c.wires)
    /\ Len(c.par[1]) = 2 ^ num_wires

IsExpval(c) == c.call = "expval"

\* The gate calls among the calls before the last one.
QueuedBeforeLast == SelectSeq(SubSeq(trace, 1, Len(trace) - 1), IsGateApply)

\* The gates of calls applied to st, the first call's gate first.
RECURSIVE AppliedInOrder(_, _)
AppliedInOrder(calls, st) ==
    IF calls = <<>>
    THEN st
    ELSE LET c == calls[Len(calls)]
         IN GateUpdate(Translate(c.name, c.wires, c.par),
                       AppliedInOrder(SubSeq(calls, 1, Len(calls) - 1), st))

\* The vector the host reads for engine vector v.
Exported(v) == [k \in 1..Len(v) |-> v[BitReverse(k - 1, num_wires) + 1]]

\* The matrix of an observable call.
ObservableMatrix(c) ==
    CASE c.name = "PauliX" -> <<<<<<0, 0>>, <<1, 0>>>>, <<<<1, 0>>, <<0, 0>>>>>>
      [] c.name = "PauliY" -> <<<<<<0, 0>>, <<0, -1>>>>, <<<<0, 1>>, <<0, 0>>>>>>
      [] c.name = "PauliZ" -> <<<<<<1, 0>>, <<0, 0>>>>, <<<<0, 0>>, <<-1, 0>>>>>>
      [] c.name = "Hermitian" -> c.par[1]

\* The 2x2 matrix M on wire w applied to vector st.
MatrixOnWire(M, w, st) ==
    [k \in 1..Len(st) |->
        LET b == ((k - 1) \div (2 ^ w)) % 2
            low == k - b * (2 ^ w)
        IN CAdd(CMul(M[b + 1][1], st[low]), CMul(M[b + 1][2], st[low + 2 ^ w]))]

IsSquare(M) == \A r \in 1..Len(M) : Len(M[r]) = Len(M)
EqualsConjugateTranspose(M) ==
    \A r \in 1..Len(M) : \A c \in 1..Len(M) :
        M[r][c] = <<M[c][r][1], -M[c][r][2]>>

----------------------------------------------------------------------------
\* C1: after reset the state is the ground state and the gate sequence is empty,
\* whatever came before; reading the state directly after reset, and after reset
\* followed by a commit, returns [1, 0, ..., 0].
C1_ResetRestoresGround ==
    /\ (Len(trace) = 1 /\ trace[1].call = "reset")
          => /\ _state = Ground
             /\ _circuit = <<>>
             /\ state = Ground
    /\ (Len(trace) = 2 /\ trace[1].call = "reset" /\ trace[2].call = "state")
          => returned = [kind |-> "vector", real |-> 0, vector |-> Ground]
    /\ (Len(trace) = 2 /\ trace[1].call = "reset" /\ trace[2].call = "pre_measure")
          => _state = Ground /\ _circuit = <<>>
    /\ (Len(trace) = 3 /\ trace[1].call = "reset" /\ trace[2].call = "pre_measure"
            /\ trace[3].call = "state")
          => returned = [kind |-> "vector", real |-> 0, vector |-> Ground]

\* A reset has just discarded a state other than the ground state and a queue
\* with gates in it.
C1_Witness ==
    /\ Len(trace) = 1
    /\ trace[1].call = "reset"
    /\ pre.state # Ground
    /\ pre.circuit # <<>>

\* C2: a commit applies every gate queued since construction or the last reset,
\* in the order of the apply calls, to the state it finds, and leaves the gate
\* sequence as it was; a second commit applies the whole sequence again.
C2_CommitAppliesQueueInOrder ==
    LastIs("pre_measure") =>
        /\ _state = AppliedInOrder(QueuedBeforeLast, pre.state)
        /\ _circuit = pre.circuit
        /\ Len(_circuit) = Len(QueuedBeforeLast)

\* Two commits in a row with a gate queued: the second has changed the state again.
C2_Witness ==
    /\ Len(trace) = 3
    /\ IsGateApply(trace[1])
    /\ trace[2].call = "pre_measure"
    /\ trace[3].call = "pre_measure"
    /\ _circuit # <<>>
    /\ _state # pre.state

\* C3: apply of a name of the translation table appends exactly one gate to the
\* end of the gate sequence, raises nothing and leaves the state unchanged.
C3_ApplyQueuesOneGate ==
    (trace # <<>> /\ IsGateApply(Last)) =>
        /\ raised = "none"
        /\ Len(_circuit) = Len(pre.circuit) + 1
        /\ SubSeq(_circuit, 1, Len(pre.circuit)) = pre.circuit
        /\ _circuit[Len(_circuit)].qubits[1] = Last.wires[1]
        /\ _state = pre.state

\* A gate has been queued behind another one, on a state that is not the ground
\* state.
C3_Witness ==
    /\ trace # <<>>
    /\ IsGateApply(Last)
    /\ Last.name = "CNOT"
    /\ pre.circuit # <<>>
    /\ pre.state # Ground

C5_LoadLengthValidated ==
    (trace # <<>> /\ IsLoad(Last)) =>
        IF Len(Last.par[1]) # 2 ^ Len(Last.wires)
        THEN /\ raised = "InvalidArgument"
             /\ _state = pre.state
             /\ _circuit = pre.circuit
        ELSE raised # "InvalidArgument"

\* A load of a mismatched length was rejected with a gate in the queue.
C5_Witness ==
    /\ trace # <<>>
    /\ IsLoad(Last)
    /\ Len(Last.par[1]) # 2 ^ Len(Last.wires)
    /\ raised = "InvalidArgument"
    /\ pre.circuit # <<>>

\* C6: the amplitude vector always has length 2^num_wires, and a state-vector
\* load whose length differs from 2^num_wires is rejected with InvalidArgument.
C6_LengthAndRejection ==
    /\ Len(_state) = 2 ^ num_wires
    /\ (trace # <<>> /\ IsLoad(Last) /\ Len(Last.par[1]) # 2 ^ num_wires)
          => raised = "InvalidArgument"

\* C7: expectation_value of a Hermitian observable whose matrix is not square or
\* not equal to its conjugate transpose raises InvalidObservableError and leaves
\* the state and the gate sequence as they were.
C7_InvalidObservableRejected ==
    (/\ trace # <<>>
     /\ IsExpval(Last)
     /\ Last.name = "Hermitian"
     /\ (~IsSquare(Last.par[1]) \/ ~EqualsConjugateTranspose(Last.par[1])))
        => /\ raised = "InvalidObservableError"
           /\ returned.kind = "none"
           /\ _state = pre.state
           /\ _circuit = pre.circuit

\* A square matrix equal to its transpose but not to its conjugate transpose was
\* rejected on a state other than the ground state.
C7_Witness ==
    /\ trace # <<>>
    /\ IsExpval(Last)
    /\ Last.name = "Hermitian"
    /\ IsSquare(Last.par[1])
    /\ ~EqualsConjugateTranspose(Last.par[1])
    /\ raised = "InvalidObservableError"
    /\ pre.state # Ground

\* C8: on one wire, PauliZ on the ground state has expectation +1; after PauliX
\* on wire 0 and a commit, PauliZ on wire 0 has expectation -1.
C8_PauliZExpectation ==
    num_wires = 1 =>
        /\ (/\ trace # <<>>
            /\ IsExpval(Last)
            /\ Last.name = "PauliZ"
            /\ Last.wires = <<0>>
            /\ pre.state = Ground)
              => /\ raised = "none"
                 /\ returned.kind = "real"
                 /\ returned.real = 1
        /\ (/\ Len(trace) = 3
            /\ IsGateApply(trace[1])
            /\ trace[1].name = "PauliX"
            /\ trace[1].wires = <<0>>
            /\ trace[2].call = "pre_measure"
            /\ IsExpval(trace[3])
            /\ trace[3].name = "PauliZ"
            /\ trace[3].wires = <<0>>)
              => /\ raised = "none"
                 /\ returned.kind = "real"
                 /\ returned.real = -1

\* PauliX, commit, PauliZ on one wire has returned -1.
C8_Witness ==
    /\ num_wires = 1
    /\ Len(trace) = 3
    /\ IsGateApply(trace[1])
    /\ trace[1].name = "PauliX"
    /\ trace[2].call = "pre_measure"
    /\ IsExpval(trace[3])
    /\ trace[3].name = "PauliZ"
    /\ returned.real = -1

NoCommitYet == \A k \in 1..Len(trace) : trace[k].call # "pre_measure"

\* The calls before the last one that write the state directly.
NoDirectWriteBeforeLast ==
    \A k \in 1..(Len(trace) - 1) :
        /\ ~IsValidLoad(trace[k])
        /\ ~(IsExpval(trace[k]) /\ trace[k].raised = "none")

\* C9 as stated: a readout made before any commit operates on the ground state,
\* whatever apply calls were made before it.
C9_ReadoutBeforeCommitOnGround ==
    (trace # <<>> /\ (LastIs("state") \/ LastIs("expval")) /\ NoCommitYet)
        => pre.state = Ground

\* C9 as amended: a readout made before any commit never fails for lack of a
\* commit, and it operates on the ground state provided no accepted state-vector
\* load and no successful expectation_value came before it, whatever gates were
\* queued.
C9_ReadoutBeforeCommitAmended ==
    (trace # <<>> /\ (LastIs("state") \/ LastIs("expval")) /\ NoCommitYet)
        => /\ raised \in {"none", "InvalidObservableError"}
           /\ (raised = "InvalidObservableError") => (Last.name = "Hermitian")
           /\ NoDirectWriteBeforeLast =>
                /\ pre.state = Ground
                /\ LastIs("state")
                      => returned = [kind |-> "vector", real |-> 0, vector |-> Ground]

\* The state was read with a gate queued and nothing committed.
C9_Witness ==
    /\ LastIs("state")
    /\ NoCommitYet
    /\ NoDirectWriteBeforeLast
    /\ _circuit # <<>>
    /\ returned.vector = Ground

\* C10: a successful expectation_value leaves the state equal to the observable's
\* matrix applied to the state before the call, and the gate sequence unchanged;
\* a readout or commit made next starts from that state.
C10_ExpvalMutatesState ==
    /\ (trace # <<>> /\ IsExpval(Last) /\ raised = "none")
          => /\ _state = MatrixOnWire(ObservableMatrix(Last), Last.wires[1], pre.state)
             /\ _circuit = pre.circuit
    /\ (Len(trace) = 2 /\ IsExpval(trace[1]) /\ trace[1].raised = "none")
          => LET mutated == MatrixOnWire(ObservableMatrix(trace[1]), trace[1].wires[1],
                                         Ground)
             IN /\ pre.state = mutated
                /\ LastIs("state")
                      => returned.vector = Exported(mutated)
                /\ LastIs("pre_measure")
                      => _state = mutated

\* The state was read after an expectation_value that changed the state.
C10_Witness ==
    /\ Len(trace) = 2
    /\ IsExpval(trace[1])
    /\ trace[1].raised = "none"
    /\ LastIs("state")
    /\ pre.state # Ground
    /\ returned.vector # Ground

====
